---- MODULE Spec2Model ----
(***************************************************************************)
(* Layout-transpose rewrite extension layer of onnxruntime                 *)
(* (ort_transpose_optimization.cc) and the training Module constructor     *)
(* (training_api/module.cc), as state machines.                            *)
(*                                                                         *)
(* Spec       : a small graph (one subject node, one consumer of its       *)
(*              outputs) on which the external driver invokes the handlers,*)
(*              the cost policy, the input selectors and the node          *)
(*              replacement primitive.                                     *)
(* ModuleSpec : Module::Module classifying the training graph's inputs one *)
(*              loop iteration per step, then Module::TrainStep.           *)
(***************************************************************************)
EXTENDS Integers, Sequences, FiniteSets, TLC

VARIABLES
    nodes,          \* alive node id -> node record (the graph's node table)
    edges,          \* producer/consumer links: [src, src_slot, dst, dst_slot]
    value_info,     \* value name -> [dtype, has_shape, rank]
    provider_type,  \* OptimizerCtx::provider_type
    next_id,        \* id the next created node gets
    last,           \* record of the most recent call made by the driver
    m_pc,           \* Module::Module position: "idle","loop","done","threw"
    m_params,       \* parameters_: name -> [requires_grad, allocated, has_grad]
    m_graph_inputs, \* the training graph's input names, in graph order
    m_i,            \* loop index into m_graph_inputs
    m_param_names,  \* param_input_names
    m_grad_names,   \* grad_input_names
    m_user_names,   \* user_input_names
    m_weights,      \* weights_   (each entry: the parameter it is the data of)
    m_gradients,    \* gradients_ (each entry: the parameter it is the gradient of)
    m_train_names,  \* train_input_names_
    m_feeds         \* the feeds TrainStep last assembled

gvars == <<nodes, edges, value_info, provider_type, next_id, last>>
mvars == <<m_pc, m_params, m_graph_inputs, m_i, m_param_names, m_grad_names,
           m_user_names, m_weights, m_gradients, m_train_names, m_feeds>>
vars == <<gvars, mvars>>

(* ----------------------------- bounds ---------------------------------- *)
MaxRank == 4
MaxPushes == 2
MaxSwaps == 2
MaxOutputs == 3
MaxConcatInputs == 9
MaxGraphInputs == 3

(* --------------------------- constants --------------------------------- *)
kCpuExecutionProvider == "CPUExecutionProvider"
kCudaExecutionProvider == "CUDAExecutionProvider"
kRocmExecutionProvider == "ROCMExecutionProvider"
kQnnExecutionProvider == "QNNExecutionProvider"
kInternalTestingExecutionProvider == "InternalTestingExecutionProvider"
kDmlExecutionProvider == "DmlExecutionProvider"
kMSDomain == "com.microsoft"
kOnnxDomain == ""

kPushTranspose == "kPushTranspose"
kStop == "kStop"
kFallThrough == "kFallThrough"

NullOpt == [has |-> FALSE, v |-> 0]
Some(v) == [has |-> TRUE, v |-> v]

(* --------------------------- permutations ------------------------------ *)
\* A permutation of rank r is a sequence of length r over 0..r-1.
IdentityPerm(rank) == [i \in 1..rank |-> i - 1]

ReversePerm(rank) == [i \in 1..rank |-> rank - i]

InvertPerm(perm) ==
    [i \in 1..Len(perm) |-> (CHOOSE j \in 1..Len(perm) : perm[j] = i - 1) - 1]

ComposePerm(p, q) == [i \in 1..Len(p) |-> p[q[i] + 1]]

\* [0, rank-1, 1, 2, ..., rank-2]: the last axis moved to position 1.
ChannelLastToFirstPerm(rank) ==
    [i \in 1..rank |-> IF i = 1 THEN 0 ELSE IF i = 2 THEN rank - 1 ELSE i - 2]

\* What a call ChannelLastToFirstPerm(rank) can produce.  For rank < 2 the result
\* is undefined: the call may fail, or yield a sequence of that rank or shorter.
ChannelLastToFirstPermResults(rank) ==
    IF rank >= 2
    THEN {[ok |-> TRUE, perm |-> ChannelLastToFirstPerm(rank)]}
    ELSE {[ok |-> FALSE, perm |-> <<>>],
          [ok |-> TRUE, perm |-> <<>>],
          [ok |-> TRUE, perm |-> IdentityPerm(rank)]}

\* The permutations the driver pushes: for every rank the identity, the
\* canonical channel-last-to-first permutation, its inverse and the reversal.
PermsOfRank(rank) ==
    {IdentityPerm(rank), ReversePerm(rank)}
    \cup (IF rank >= 2
          THEN {ChannelLastToFirstPerm(rank), InvertPerm(ChannelLastToFirstPerm(rank))}
          ELSE {})

Perms == UNION {PermsOfRank(r) : r \in 0..MaxRank}

(* ------------------------- graph interface ----------------------------- *)
\* A graph value: the node table, the links and the id counter.
Graph(ns, es, nid) == [nodes |-> ns, edges |-> es, next_id |-> nid]

GetAttributeIntDefault(node, name, default) ==
    IF name \in DOMAIN node.attrs THEN node.attrs[name] ELSE default

HasAttribute(node, name) == name \in DOMAIN node.attrs

SetAttributeInt(g, n, name, value) ==
    [g EXCEPT !.nodes[n].attrs =
        [a \in (DOMAIN @) \cup {name} |-> IF a = name THEN value ELSE @[a]]]

ClearAttribute(g, n, name) ==
    [g EXCEPT !.nodes[n].attrs = [a \in (DOMAIN @) \ {name} |-> @[a]]]

\* node.IsOp(op_type): the operator name in the default ONNX domain.
IsOp(node, op_type) ==
    node.op_type = op_type /\ node.domain \in {kOnnxDomain, "ai.onnx"}

\* A Transpose(perm) is inserted in front of input 0 of node n.
TransposeFirstInput(g, n, perm) ==
    [g EXCEPT !.nodes[n].in0T = Append(@, perm)]

\* A Transpose(perm) is inserted behind every output of node n.
TransposeOutputs(g, n, perm) ==
    [g EXCEPT !.nodes[n].outT = Append(@, perm)]

\* A new node with the inputs, attributes and execution target of n under the
\* new identity; it has as many output slots as n, all of them empty.
CopyNode(g, n, op_type, domain, since_version) ==
    LET src == g.nodes[n]
        copy == [src EXCEPT !.op_type = op_type,
                            !.domain = domain,
                            !.since_version = IF since_version.has
                                              THEN since_version.v ELSE @,
                            !.outputs = [i \in 1..Len(@) |-> ""]]
        id == g.next_id
    IN  [nodes |-> [k \in (DOMAIN g.nodes) \cup {id} |->
                        IF k = id THEN copy ELSE g.nodes[k]],
         edges |-> g.edges,
         next_id |-> id + 1]

\* Output slot i of src becomes output slot j of dst, with every consumer of
\* it; slot i of src is left empty.  Slots are 0-based as in the code.
MoveOutput(g, src, i, dst, j) ==
    [g EXCEPT !.nodes[dst].outputs[j + 1] = g.nodes[src].outputs[i + 1],
              !.nodes[src].outputs[i + 1] = "",
              !.edges = {IF e.src = src /\ e.src_slot = i
                         THEN [e EXCEPT !.src = dst, !.src_slot = j]
                         ELSE e : e \in @}]

\* The node leaves the graph together with the links that still touch it.
RemoveNode(g, n) ==
    [g EXCEPT !.nodes = [k \in (DOMAIN @) \ {n} |-> @[k]],
              !.edges = {e \in @ : e.src # n /\ e.dst # n}]

(* ---------------------- node replacement primitive --------------------- *)
RECURSIVE SwapMoveLoop(_, _, _, _, _, _)
\* for (j = 0; j < outputs.size(); ++j) if (outputs[j] != "") MoveOutput(node, j, new, j)
SwapMoveLoop(g, n, new, outputs, j, moved) ==
    IF j < Len(outputs)
    THEN IF outputs[j + 1] # ""
         THEN SwapMoveLoop(MoveOutput(g, n, j, new, j), n, new, outputs, j + 1,
                           moved \cup {j})
         ELSE SwapMoveLoop(g, n, new, outputs, j + 1, moved)
    ELSE [g |-> g, moved |-> moved]

\* The loop starting at slot 1 instead of slot 0.
SwapNodeImpl_SkipsFirstSlot(g, n, op_type, domain, since_version) ==
    LET outputs == g.nodes[n].outputs
        new == g.next_id
        g1 == CopyNode(g, n, op_type, domain, since_version)
        r == SwapMoveLoop(g1, n, new, outputs, 1, {})
    IN  [g |-> RemoveNode(r.g, n), new |-> new, moved |-> r.moved]

SwapNodeImpl(g, n, op_type, domain, since_version) ==
    LET outputs == g.nodes[n].outputs
        new == g.next_id
        g1 == CopyNode(g, n, op_type, domain, since_version)
        r == SwapMoveLoop(g1, n, new, outputs, 0, {})
    IN  [g |-> RemoveNode(r.g, n), new |-> new, moved |-> r.moved]

SwapNodeOpTypeAndDomain(g, n, op_type, domain) ==
    SwapNodeImpl(g, n, op_type, domain, NullOpt)

SwapNodeOpTypeDomainAndSinceVersion(g, n, op_type, domain, since_version) ==
    SwapNodeImpl(g, n, op_type, domain, Some(since_version))

(* --------------------------- handler results -------------------------- *)
\* What a handler invocation reports: the boolean it returns, whether it
\* ended in a fault instead, which precondition rejected (0: none), the rank
\* ChannelLastToFirstPerm was called with (-1: not called), whether the generic
\* handler was invoked, the node created (0: none) and the graph afterwards.
Result(g, ret, check, clf_rank) ==
    [g |-> g, ret |-> ret, fault |-> FALSE, check |-> check,
     clf_rank |-> clf_rank, delegated |-> FALSE, new |-> 0]

Fault(g, clf_rank) ==
    [g |-> g, ret |-> FALSE, fault |-> TRUE, check |-> 0,
     clf_rank |-> clf_rank, delegated |-> FALSE, new |-> 0]

(* ------------------------ target constraint table ---------------------- *)
EPsWithLayoutSensitiveResize ==
    {kCudaExecutionProvider, kRocmExecutionProvider, kQnnExecutionProvider,
     kInternalTestingExecutionProvider}

(* ------------------------------ handlers ------------------------------- *)
\* The generic Resize handler: an external collaborator whose verdict
\* (applicable) is an input; when it rewrites it pushes the transpose through.
HandleResize(g, n, perm, perm_inv, applicable) ==
    IF applicable
    THEN [Result(TransposeOutputs(TransposeFirstInput(g, n, perm_inv), n, perm),
                 TRUE, 0, -1) EXCEPT !.delegated = TRUE]
    ELSE [Result(g, FALSE, 0, -1) EXCEPT !.delegated = TRUE]

\* Only the empty provider is refused.
EPAwareHandleResize_IgnoresTable(g, n, provider, perm, perm_inv, applicable) ==
    IF provider = ""
    THEN Result(g, FALSE, 1, -1)
    ELSE HandleResize(g, n, perm, perm_inv, applicable)

EPAwareHandleResize(g, n, provider, perm, perm_inv, applicable) ==
    IF provider = "" \/ provider \in EPsWithLayoutSensitiveResize
    THEN Result(g, FALSE, 1, -1)
    ELSE HandleResize(g, n, perm, perm_inv, applicable)

RECURSIVE QLinearConcatLoop(_, _, _)
\* for (i = 2; i < num_inputs; i += 3) indices.push_back(i)
QLinearConcatLoop(i, num_inputs, indices) ==
    IF i < num_inputs
    THEN QLinearConcatLoop(i + 3, num_inputs, Append(indices, i))
    ELSE indices

\* The loop starting at the first tensor of the first triple.
QLinearConcatInputs_FromZero(ctx, node) ==
    QLinearConcatLoop(0, Len(node.inputs), <<>>)

QLinearConcatInputs(ctx, node) ==
    QLinearConcatLoop(2, Len(node.inputs), <<>>)

QLinearBinaryOpInputs(ctx, node) == <<0, 3>>

\* The attribute is set without being flipped.
HandleQLinearPoolOp_NoFlip(g, n, perm, perm_inv) ==
    LET channels_last == GetAttributeIntDefault(g.nodes[n], "channels_last", 0)
        rank == Len(perm)
    IN  IF rank < 2 THEN Result(g, FALSE, 1, -1)
        ELSE LET p == ChannelLastToFirstPerm(rank) IN
             IF (channels_last = 0 /\ perm = p) \/ (channels_last # 0 /\ perm_inv = p)
             THEN LET g1 == SetAttributeInt(g, n, "channels_last", channels_last)
                      g2 == TransposeFirstInput(g1, n, perm_inv)
                      g3 == TransposeOutputs(g2, n, perm)
                  IN  Result(g3, TRUE, 0, rank)
             ELSE Result(g, FALSE, 2, rank)

\* The channels_last case compares perm, not perm_inv, with the canonical one.
HandleQLinearPoolOp_NoInverse(g, n, perm, perm_inv) ==
    LET channels_last == GetAttributeIntDefault(g.nodes[n], "channels_last", 0)
        rank == Len(perm)
    IN  IF rank < 2 THEN Result(g, FALSE, 1, -1)
        ELSE LET p == ChannelLastToFirstPerm(rank) IN
             IF perm = p
             THEN LET g1 == SetAttributeInt(g, n, "channels_last", 1 - channels_last)
                      g2 == TransposeFirstInput(g1, n, perm_inv)
                      g3 == TransposeOutputs(g2, n, perm)
                  IN  Result(g3, TRUE, 0, rank)
             ELSE Result(g, FALSE, 2, rank)

HandleQLinearPoolOp(g, n, perm, perm_inv) ==
    LET channels_last == GetAttributeIntDefault(g.nodes[n], "channels_last", 0)
        rank == Len(perm)
    IN  IF rank < 2 THEN Result(g, FALSE, 1, -1)
        ELSE LET p == ChannelLastToFirstPerm(rank) IN
             IF (channels_last = 0 /\ perm = p) \/ (channels_last # 0 /\ perm_inv = p)
             THEN LET g1 == SetAttributeInt(g, n, "channels_last", 1 - channels_last)
                      g2 == TransposeFirstInput(g1, n, perm_inv)
                      g3 == TransposeOutputs(g2, n, perm)
                  IN  Result(g3, TRUE, 0, rank)
             ELSE Result(g, FALSE, 2, rank)

\* The rewrite of HandleMaxPool once its four checks have passed.
MaxPoolRewrite_KeepsStorageOrder(g, n, perm, perm_inv) ==
    LET s == SwapNodeOpTypeDomainAndSinceVersion(g, n, "NhwcMaxPool", kMSDomain, 1)
        g2 == TransposeFirstInput(s.g, s.new, perm_inv)
        g3 == TransposeOutputs(g2, s.new, perm)
    IN  [g |-> g3, new |-> s.new]

MaxPoolRewrite(g, n, perm, perm_inv) ==
    LET s == SwapNodeOpTypeDomainAndSinceVersion(g, n, "NhwcMaxPool", kMSDomain, 1)
        g1 == ClearAttribute(s.g, s.new, "storage_order")
        g2 == TransposeFirstInput(g1, s.new, perm_inv)
        g3 == TransposeOutputs(g2, s.new, perm)
    IN  [g |-> g3, new |-> s.new]

\* canon is what the call ChannelLastToFirstPerm(rank) produced.
HandleMaxPool(g, vi, n, perm, perm_inv, canon) ==
    LET node == g.nodes[n]
        outputs == node.outputs
        rank == Len(perm)
    IN  IF node.ep # kCpuExecutionProvider THEN Result(g, FALSE, 1, -1)
        ELSE IF Len(outputs) = 2 /\ outputs[2] # "" THEN Result(g, FALSE, 2, -1)
        ELSE LET dtype == vi[outputs[1]].dtype IN
             IF dtype # "UINT8" /\ dtype # "INT8" THEN Result(g, FALSE, 3, -1)
             ELSE IF ~canon.ok THEN Fault(g, rank)
             ELSE IF perm # canon.perm THEN Result(g, FALSE, 4, rank)
             ELSE LET w == MaxPoolRewrite(g, n, perm, perm_inv) IN
                  [Result(w.g, TRUE, 0, rank) EXCEPT !.new = w.new]

(* ------------------------------ registry ------------------------------- *)
\* A registry key is <<domain, operator name>>; the code writes it as the bare
\* name for the default domain and as "domain.name" otherwise.
ep_aware_resize_handler == [inputs |-> "FirstInput", fn |-> "EPAwareHandleResize"]
q_linear_concat_handler == [inputs |-> "QLinearConcatInputs", fn |-> "HandleQLinearConcat"]
q_linear_binary_op_handler == [inputs |-> "QLinearBinaryOpInputs", fn |-> "HandleQLinearBinaryOp"]
q_linear_pool_op_handler == [inputs |-> "FirstInput", fn |-> "HandleQLinearPoolOp"]
max_pool_op_handler == [inputs |-> "FirstInput", fn |-> "HandleMaxPool"]
node_1_inp_handler == [inputs |-> "FirstInput", fn |-> "HandleSimpleNode"]
reduce_op_handler == [inputs |-> "FirstInput", fn |-> "HandleReduceOps"]
no_handler == [inputs |-> "none", fn |-> "none"]

OrtHandlers == [k \in {<<kOnnxDomain, "Resize">>} |-> ep_aware_resize_handler]

ContribHandlers ==
    [k \in {<<kOnnxDomain, "MaxPool">>, <<kMSDomain, "QLinearAdd">>,
            <<kMSDomain, "QLinearAveragePool">>, <<kMSDomain, "QLinearConcat">>,
            <<kMSDomain, "QLinearGlobalAveragePool">>, <<kMSDomain, "QLinearLeakyRelu">>,
            <<kMSDomain, "QLinearMul">>, <<kMSDomain, "QLinearReduceMean">>,
            <<kMSDomain, "QLinearSigmoid">>} |->
        CASE k[2] = "MaxPool" -> max_pool_op_handler
          [] k[2] \in {"QLinearAdd", "QLinearMul"} -> q_linear_binary_op_handler
          [] k[2] \in {"QLinearAveragePool", "QLinearGlobalAveragePool"}
                -> q_linear_pool_op_handler
          [] k[2] = "QLinearConcat" -> q_linear_concat_handler
          [] k[2] \in {"QLinearLeakyRelu", "QLinearSigmoid"} -> node_1_inp_handler
          [] OTHER -> reduce_op_handler]

\* The contrib entries, then every baseline entry whose key is not yet present.
OrtExtendedHandlers ==
    [k \in (DOMAIN ContribHandlers) \cup (DOMAIN OrtHandlers) |->
        IF k \in DOMAIN ContribHandlers THEN ContribHandlers[k] ELSE OrtHandlers[k]]

LookupHandler(node) ==
    LET key == <<node.domain, node.op_type>> IN
    IF key \in DOMAIN OrtExtendedHandlers THEN OrtExtendedHandlers[key] ELSE no_handler

(* ----------------------------- cost policy ----------------------------- *)
\* The Resize branch without the rank test.
OrtEPCostCheck_NoRankTest(g, vi, n) ==
    LET node == g.nodes[n] IN
    IF node.ep = kCpuExecutionProvider
    THEN IF IsOp(node, "MaxPool") THEN kPushTranspose
         ELSE IF IsOp(node, "Resize")
                 /\ LET X == vi[node.inputs[1]] IN
                    /\ X.dtype \in {"UINT8", "INT8"}
                    /\ HasAttribute(node, "mode") /\ node.attrs["mode"] = "linear"
              THEN kPushTranspose
              ELSE kFallThrough
    ELSE kFallThrough

OrtEPCostCheck(g, vi, n) ==
    LET node == g.nodes[n] IN
    IF node.ep = kCpuExecutionProvider
    THEN IF IsOp(node, "MaxPool") THEN kPushTranspose
         ELSE IF IsOp(node, "Resize")
                 /\ LET X == vi[node.inputs[1]] IN
                    /\ X.has_shape /\ X.rank = 4
                    /\ X.dtype \in {"UINT8", "INT8"}
                    /\ HasAttribute(node, "mode") /\ node.attrs["mode"] = "linear"
              THEN kPushTranspose
              ELSE kFallThrough
    ELSE kFallThrough

(* ---------------------------- initial graphs --------------------------- *)
kMSInternalNHWCDomain == "com.ms.internal.nhwc"

SubjectId == 1
ConsumerId == 2
FirstFreeId == 3

EmptyAttrs == [a \in {} |-> 0]

Node(op_type, domain, since_version, ep, inputs, outputs, attrs) ==
    [op_type |-> op_type, domain |-> domain, since_version |-> since_version,
     ep |-> ep, inputs |-> inputs, outputs |-> outputs, attrs |-> attrs,
     in0T |-> <<>>, outT |-> <<>>]

Info(dtype, has_shape, rank) == [dtype |-> dtype, has_shape |-> has_shape, rank |-> rank]

EPs == {"", kCpuExecutionProvider, kCudaExecutionProvider, kRocmExecutionProvider,
        kQnnExecutionProvider, kInternalTestingExecutionProvider, kDmlExecutionProvider}

DTypes == {"INT8", "UINT8", "FLOAT"}

OutputNames == <<"v0", "v1", "v2", "v3", "v4", "v5">>

InputNames == <<"x0", "x1", "x2", "x3", "x4", "x5", "x6", "x7", "x8", "x9", "x10", "x11">>

\* Every output list of at most MaxOutputs slots, each slot named or empty.
OutputLists ==
    UNION {{[i \in 1..len |-> IF i \in used THEN OutputNames[i] ELSE ""]
            : used \in SUBSET (1..len)} : len \in 0..MaxOutputs}

\* A configuration: the subject node, the type information of its data
\* tensors and the provider the optimizer runs for.
Config(node, info, provider) == [node |-> node, info |-> info, provider |-> provider]

MaxPoolConfigs ==
    {Config(Node("MaxPool", kOnnxDomain, 12, ep, <<"X">>, outs, attrs),
            Info(dtype, TRUE, rank), ep)
     : ep \in {"", kCpuExecutionProvider, kCudaExecutionProvider},
       outs \in {<<"Y">>, <<"Y", "">>, <<"Y", "Indices">>},
       attrs \in {EmptyAttrs, [storage_order |-> 1]},
       dtype \in DTypes, rank \in 0..MaxRank}

QLinearPoolConfigs ==
    {Config(Node(op, kMSDomain, 1, kCpuExecutionProvider,
                 <<"X", "x_scale", "x_zp", "y_scale", "y_zp">>, <<"Y">>, attrs),
            Info("UINT8", TRUE, rank), kCpuExecutionProvider)
     : op \in {"QLinearAveragePool", "QLinearGlobalAveragePool"},
       attrs \in {EmptyAttrs, [channels_last |-> 0], [channels_last |-> 1]},
       rank \in 0..MaxRank}

\* Resize nodes: every type/shape/mode combination on the CPU provider, and
\* the combination the CPU kernel prefers on every other provider.
ResizeConfigs ==
    {Config(Node("Resize", kOnnxDomain, 13, c.ep, <<"X", "roi", "scales">>, <<"Y">>,
                 c.attrs),
            Info(c.dtype, c.has_shape, c.rank), c.provider)
     : c \in {c \in [ep : EPs, provider : EPs, dtype : DTypes, has_shape : BOOLEAN,
                     rank : (MaxRank - 1)..MaxRank,
                     attrs : {EmptyAttrs, [mode |-> "linear"], [mode |-> "nearest"]}]
              : /\ c.provider \in {"", c.ep}
                /\ \/ c.ep = kCpuExecutionProvider
                   \/ (c.dtype = "INT8" /\ c.has_shape /\ c.rank = MaxRank
                       /\ c.attrs = [mode |-> "linear"])}}

QLinearConcatConfigs ==
    {Config(Node("QLinearConcat", kMSDomain, 1, kCpuExecutionProvider,
                 SubSeq(InputNames, 1, num_inputs), <<"Y">>, attrs),
            Info("UINT8", TRUE, MaxRank), provider)
     : num_inputs \in 0..MaxConcatInputs, attrs \in {EmptyAttrs, [axis |-> 1]},
       provider \in {"", kCpuExecutionProvider}}

QLinearBinaryOpConfigs ==
    {Config(Node(op, kMSDomain, 1, kCpuExecutionProvider,
                 SubSeq(InputNames, 1, 8), <<"Y">>, attrs),
            Info("UINT8", TRUE, MaxRank), provider)
     : op \in {"QLinearAdd", "QLinearMul"}, attrs \in {EmptyAttrs, [axis |-> 1]},
       provider \in {"", kCpuExecutionProvider}}

\* Nodes no handler is registered for, with every output list.
OtherConfigs ==
    {Config(Node("Split", kOnnxDomain, 13, ep, <<"X">>, outs, EmptyAttrs),
            Info("FLOAT", TRUE, MaxRank), ep)
     : ep \in {kCpuExecutionProvider, kCudaExecutionProvider}, outs \in OutputLists}

Configs ==
    MaxPoolConfigs \cup QLinearPoolConfigs \cup ResizeConfigs
    \cup QLinearConcatConfigs \cup QLinearBinaryOpConfigs \cup OtherConfigs

ValueNames ==
    {"X", "Y", "Indices", "roi", "scales", "x_scale", "x_zp", "y_scale", "y_zp", "Z"}
    \cup {OutputNames[i] : i \in 1..Len(OutputNames)}
    \cup {InputNames[i] : i \in 1..Len(InputNames)}

\* The consumer reads every non-empty output of the subject, in slot order.
UsedSlots(outs) == {j \in 1..Len(outs) : outs[j] # ""}

ConsumerNode(outs) ==
    Node("Relu", kOnnxDomain, 13, kCpuExecutionProvider,
         SelectSeq(outs, LAMBDA v : v # ""), <<"Z">>, EmptyAttrs)

ConsumerEdges(outs) ==
    {[src |-> SubjectId, src_slot |-> j - 1, dst |-> ConsumerId,
      dst_slot |-> Cardinality({k \in UsedSlots(outs) : k < j})] : j \in UsedSlots(outs)}

NoCall ==
    [op |-> "none", node |-> 0, perm |-> <<>>, ret |-> FALSE, fault |-> FALSE,
     check |-> 0, clf_rank |-> -1, delegated |-> FALSE, applicable |-> FALSE,
     new |-> 0, moved |-> {}, req |-> [op_type |-> "", domain |-> "", since_version |-> NullOpt],
     cost |-> "none", indices |-> <<>>, pre_nodes |-> <<>>, pre_edges |-> {}]

ModuleIdle ==
    /\ m_pc = "idle" /\ m_params = <<>> /\ m_graph_inputs = <<>> /\ m_i = 0
    /\ m_param_names = <<>> /\ m_grad_names = <<>> /\ m_user_names = <<>>
    /\ m_weights = <<>> /\ m_gradients = <<>> /\ m_train_names = <<>>
    /\ m_feeds = <<>>

Init ==
    /\ \E c \in Configs :
        /\ nodes = [k \in {SubjectId, ConsumerId} |->
                        IF k = SubjectId THEN c.node ELSE ConsumerNode(c.node.outputs)]
        /\ edges = ConsumerEdges(c.node.outputs)
        /\ value_info = [v \in ValueNames |->
                            IF v \in {"X", "Y"} THEN c.info
                            ELSE IF v = "Indices" THEN Info("INT64", c.info.has_shape, c.info.rank)
                            ELSE Info("FLOAT", TRUE, c.info.rank)]
        /\ provider_type = c.provider
    /\ next_id = FirstFreeId
    /\ last = NoCall
    /\ ModuleIdle

(* ------------------------------- driver -------------------------------- *)
CurrentGraph == Graph(nodes, edges, next_id)

\* The transposes the driver pushes at node n have the rank of its data input.
PushablePerms(n) ==
    IF Len(nodes[n].inputs) = 0 THEN {}
    ELSE PermsOfRank(value_info[nodes[n].inputs[1]].rank)

CanPush(n) == Len(nodes[n].outT) < MaxPushes

CanSwap == next_id < FirstFreeId + MaxSwaps

\* The graph becomes r.g and the call is recorded in last.
Apply(r, op, n, perm, applicable) ==
    /\ nodes' = r.g.nodes
    /\ edges' = r.g.edges
    /\ next_id' = r.g.next_id
    /\ last' = [NoCall EXCEPT !.op = op, !.node = n, !.perm = perm, !.ret = r.ret,
                              !.fault = r.fault, !.check = r.check,
                              !.clf_rank = r.clf_rank, !.delegated = r.delegated,
                              !.applicable = applicable, !.new = r.new,
                              !.pre_nodes = nodes, !.pre_edges = edges]
    /\ UNCHANGED <<value_info, provider_type, mvars>>

DoEPAwareHandleResize ==
    \E n \in DOMAIN nodes, applicable \in BOOLEAN :
        /\ LookupHandler(nodes[n]).fn = "EPAwareHandleResize"
        /\ CanPush(n)
        /\ \E perm \in PushablePerms(n) :
             Apply(EPAwareHandleResize(CurrentGraph, n, provider_type, perm,
                                       InvertPerm(perm), applicable),
                   "EPAwareHandleResize", n, perm, applicable)

DoHandleQLinearPoolOp ==
    \E n \in DOMAIN nodes :
        /\ LookupHandler(nodes[n]).fn = "HandleQLinearPoolOp"
        /\ CanPush(n)
        /\ \E perm \in PushablePerms(n) :
             Apply(HandleQLinearPoolOp(CurrentGraph, n, perm, InvertPerm(perm)),
                   "HandleQLinearPoolOp", n, perm, FALSE)

DoHandleMaxPool ==
    \E n \in DOMAIN nodes :
        /\ LookupHandler(nodes[n]).fn = "HandleMaxPool"
        /\ CanPush(n) /\ CanSwap
        /\ \E perm \in PushablePerms(n) :
           \E canon \in ChannelLastToFirstPermResults(Len(perm)) :
             Apply(HandleMaxPool(CurrentGraph, value_info, n, perm, InvertPerm(perm),
                                 canon),
                   "HandleMaxPool", n, perm, FALSE)

\* The layout transformer moves a node to the internal NHWC domain.
DoSwapNodeOpTypeAndDomain ==
    \E n \in DOMAIN nodes :
        /\ CanSwap
        /\ nodes[n].domain # kMSInternalNHWCDomain
        /\ LET r == SwapNodeOpTypeAndDomain(CurrentGraph, n, nodes[n].op_type,
                                            kMSInternalNHWCDomain)
           IN  /\ nodes' = r.g.nodes
               /\ edges' = r.g.edges
               /\ next_id' = r.g.next_id
               /\ last' = [NoCall EXCEPT !.op = "SwapNodeOpTypeAndDomain", !.node = n,
                                         !.new = r.new, !.moved = r.moved,
                                         !.req = [op_type |-> nodes[n].op_type,
                                                  domain |-> kMSInternalNHWCDomain,
                                                  since_version |-> NullOpt],
                                         !.pre_nodes = nodes, !.pre_edges = edges]
        /\ UNCHANGED <<value_info, provider_type, mvars>>

DoSwapNodeOpTypeDomainAndSinceVersion ==
    \E n \in DOMAIN nodes :
        /\ CanSwap
        /\ nodes[n].op_type # "NhwcMaxPool"
        /\ LET r == SwapNodeOpTypeDomainAndSinceVersion(CurrentGraph, n, "NhwcMaxPool",
                                                        kMSDomain, 1)
           IN  /\ nodes' = r.g.nodes
               /\ edges' = r.g.edges
               /\ next_id' = r.g.next_id
               /\ last' = [NoCall EXCEPT !.op = "SwapNodeOpTypeDomainAndSinceVersion",
                                         !.node = n, !.new = r.new, !.moved = r.moved,
                                         !.req = [op_type |-> "NhwcMaxPool",
                                                  domain |-> kMSDomain,
                                                  since_version |-> Some(1)],
                                         !.pre_nodes = nodes, !.pre_edges = edges]
        /\ UNCHANGED <<value_info, provider_type, mvars>>

DoOrtEPCostCheck ==
    \E n \in DOMAIN nodes :
        /\ last' = [NoCall EXCEPT !.op = "OrtEPCostCheck", !.node = n,
                                  !.cost = OrtEPCostCheck(CurrentGraph, value_info, n),
                                  !.pre_nodes = nodes, !.pre_edges = edges]
        /\ UNCHANGED <<nodes, edges, next_id, value_info, provider_type, mvars>>

DoQLinearConcatInputs ==
    \E n \in DOMAIN nodes :
        /\ LookupHandler(nodes[n]).inputs = "QLinearConcatInputs"
        /\ last' = [NoCall EXCEPT !.op = "QLinearConcatInputs", !.node = n,
                                  !.indices = QLinearConcatInputs(provider_type, nodes[n]),
                                  !.pre_nodes = nodes, !.pre_edges = edges]
        /\ UNCHANGED <<nodes, edges, next_id, value_info, provider_type, mvars>>

DoQLinearBinaryOpInputs ==
    \E n \in DOMAIN nodes :
        /\ LookupHandler(nodes[n]).inputs = "QLinearBinaryOpInputs"
        /\ last' = [NoCall EXCEPT !.op = "QLinearBinaryOpInputs", !.node = n,
                                  !.indices = QLinearBinaryOpInputs(provider_type, nodes[n]),
                                  !.pre_nodes = nodes, !.pre_edges = edges]
        /\ UNCHANGED <<nodes, edges, next_id, value_info, provider_type, mvars>>

Next ==
    \/ DoEPAwareHandleResize
    \/ DoHandleQLinearPoolOp
    \/ DoHandleMaxPool
    \/ DoSwapNodeOpTypeAndDomain
    \/ DoSwapNodeOpTypeDomainAndSinceVersion
    \/ DoOrtEPCostCheck
    \/ DoQLinearConcatInputs
    \/ DoQLinearBinaryOpInputs

Spec == Init /\ [][Next]_vars

(* ======================= properties of Spec ============================ *)
\* The subject of the last call as it was when the call was made.
LastOld == last.pre_nodes[last.node]

GraphUntouched == nodes = last.pre_nodes /\ edges = last.pre_edges

EffectiveChannelsLast(node) ==
    IF "channels_last" \in DOMAIN node.attrs THEN node.attrs["channels_last"] ELSE 0

\* The canonical channel-last-to-first permutation exists from rank 2 on.
IsCanonicalPerm(perm) ==
    Len(perm) >= 2 /\ perm = ChannelLastToFirstPerm(Len(perm))

IsSwapCall ==
    last.op \in {"SwapNodeOpTypeAndDomain", "SwapNodeOpTypeDomainAndSinceVersion"}

\* C1: after SwapNodeOpTypeAndDomain / SwapNodeOpTypeDomainAndSinceVersion the
\* old node is gone; every non-empty output of the old node is the output of
\* the new node at the same index, was moved, and every link that led from it
\* to a consumer now leads from the new node to the same consumer input; every
\* empty slot stays empty and no move was made for it; all other nodes are as
\* they were.
C1_SwapPreservesOutputIdentity ==
    IsSwapCall =>
        /\ last.node \notin DOMAIN nodes
        /\ last.new \in DOMAIN nodes
        /\ \A e \in edges : e.src # last.node /\ e.dst # last.node
        /\ \A k \in (DOMAIN last.pre_nodes) \ {last.node} : nodes[k] = last.pre_nodes[k]
        /\ LET old == LastOld
               new == nodes[last.new]
           IN  /\ Len(new.outputs) = Len(old.outputs)
               /\ \A j \in 1..Len(old.outputs) :
                    IF old.outputs[j] # ""
                    THEN /\ new.outputs[j] = old.outputs[j]
                         /\ (j - 1) \in last.moved
                         /\ \A e \in last.pre_edges :
                              (e.src = last.node /\ e.src_slot = j - 1)
                                  => [e EXCEPT !.src = last.new] \in edges
                    ELSE /\ new.outputs[j] = ""
                         /\ (j - 1) \notin last.moved

\* A node with outputs [A, "", C] has been replaced: slots 0 and 2 moved.
C1_Witness ==
    /\ IsSwapCall
    /\ LastOld.outputs = <<"v0", "", "v2">>
    /\ last.moved = {0, 2}
    /\ [src |-> last.new, src_slot |-> 2, dst |-> ConsumerId, dst_slot |-> 1] \in edges

\* What the four preconditions of the MaxPool rewrite say of the subject.
MaxPoolFirstFailedCheck ==
    LET old == LastOld IN
    IF old.ep # kCpuExecutionProvider THEN 1
    ELSE IF Len(old.outputs) = 2 /\ old.outputs[2] # "" THEN 2
    ELSE IF value_info[old.outputs[1]].dtype \notin {"INT8", "UINT8"} THEN 3
    ELSE IF ~IsCanonicalPerm(last.perm) THEN 4
    ELSE 0

\* C2: when the target is not the CPU provider, or a second output is used, or
\* the primary output is neither INT8 nor UINT8, or the pushed permutation is
\* not the canonical one for its rank, HandleMaxPool returns false, the graph
\* is untouched, and the rejecting check is the first one that fails.
C2_MaxPoolRejects ==
    (last.op = "HandleMaxPool" /\ MaxPoolFirstFailedCheck # 0) =>
        /\ ~last.fault
        /\ ~last.ret
        /\ last.check = MaxPoolFirstFailedCheck
        /\ GraphUntouched

\* The part of C2 for permutations of rank 2 and more (holds; kept for reference).
MaxPoolRejectsFromRankTwo ==
    (last.op = "HandleMaxPool" /\ MaxPoolFirstFailedCheck # 0 /\ Len(last.perm) >= 2) =>
        /\ ~last.fault
        /\ ~last.ret
        /\ last.check = MaxPoolFirstFailedCheck
        /\ GraphUntouched

\* C3: whenever HandleMaxPool returns true the old node is gone and the new
\* node is NhwcMaxPool in com.microsoft at version 1, has no storage_order
\* attribute and otherwise the old attributes, the old inputs and outputs, the
\* inverse permutation in front of input 0 and the pushed one behind its outputs.
C3_MaxPoolRewrite ==
    (last.op = "HandleMaxPool" /\ last.ret) =>
        /\ last.node \notin DOMAIN nodes
        /\ last.new \in DOMAIN nodes
        /\ LET old == LastOld
               new == nodes[last.new]
           IN  /\ new.op_type = "NhwcMaxPool"
               /\ new.domain = "com.microsoft"
               /\ new.since_version = 1
               /\ "storage_order" \notin DOMAIN new.attrs
               /\ \A a \in (DOMAIN old.attrs) \ {"storage_order"} :
                    a \in DOMAIN new.attrs /\ new.attrs[a] = old.attrs[a]
               /\ new.inputs = old.inputs
               /\ new.outputs = old.outputs
               /\ new.in0T = Append(old.in0T, InvertPerm(last.perm))
               /\ new.outT = Append(old.outT, last.perm)

\* A MaxPool that carried storage_order was rewritten under a rank-4 push.
C3_Witness ==
    /\ last.op = "HandleMaxPool" /\ last.ret
    /\ "storage_order" \in DOMAIN LastOld.attrs
    /\ Len(last.perm) = 4
    /\ LastOld.outputs = <<"Y", "">>

C5_CostCheck ==
    last.op = "OrtEPCostCheck" =>
        LET node == nodes[last.node]
            X == value_info[node.inputs[1]]
            onnx == node.domain \in {"", "ai.onnx"}
            push ==
                /\ node.ep = "CPUExecutionProvider"
                /\ \/ (onnx /\ node.op_type = "MaxPool")
                   \/ /\ onnx /\ node.op_type = "Resize"
                      /\ X.has_shape /\ X.rank = 4
                      /\ X.dtype \in {"INT8", "UINT8"}
                      /\ "mode" \in DOMAIN node.attrs /\ node.attrs["mode"] = "linear"
        IN  /\ last.cost = (IF push THEN kPushTranspose ELSE kFallThrough)
            /\ last.cost # kStop
            /\ GraphUntouched

\* A CPU Resize of a rank-4 INT8 tensor in linear mode is force-pushed.
C5_Witness ==
    /\ last.op = "OrtEPCostCheck"
    /\ nodes[last.node].op_type = "Resize"
    /\ last.cost = kPushTranspose

\* One step of the driver that calls HandleQLinearPoolOp on the node it called
\* it on in the step before, first with the permutation matching the node's
\* channels_last and then with the inverse of that permutation.
IsComplementaryPair ==
    /\ last.op = "HandleQLinearPoolOp"
    /\ last'.op = "HandleQLinearPoolOp"
    /\ last'.node = last.node
    /\ Len(last.perm) >= 2
    /\ LET p == ChannelLastToFirstPerm(Len(last.perm))
           cl == EffectiveChannelsLast(LastOld)
       IN  \/ cl = 0 /\ last.perm = p /\ last'.perm = InvertPerm(p)
           \/ cl = 1 /\ last.perm = InvertPerm(p) /\ last'.perm = p

RoundTripRestores ==
    /\ last.ret
    /\ last'.ret
    /\ EffectiveChannelsLast(nodes'[last.node]) = EffectiveChannelsLast(LastOld)
    /\ ComposePerm(last.perm, last'.perm) = IdentityPerm(Len(last.perm))
    /\ nodes'[last.node].outT = LastOld.outT \o <<last.perm, last'.perm>>

\* C6: HandleQLinearPoolOp called with the forward permutation and then with
\* its inverse on the same node (or in the opposite order from channels_last =
\* 1) succeeds both times, restores channels_last, and the two permutations
\* put behind the outputs compose to the identity.
C6_PoolRoundTrip == [][IsComplementaryPair => RoundTripRestores]_vars

\* A rank-4 round trip has completed: forward, then inverse, behind the outputs.
C6_Witness ==
    /\ last.op = "HandleQLinearPoolOp" /\ last.ret
    /\ last.node \in DOMAIN nodes
    /\ nodes[last.node].outT =
            <<ChannelLastToFirstPerm(4), InvertPerm(ChannelLastToFirstPerm(4))>>
    /\ ChannelLastToFirstPerm(4) # InvertPerm(ChannelLastToFirstPerm(4))
    /\ EffectiveChannelsLast(nodes[last.node]) = 0

\* C7: QLinearConcatInputs returns, in increasing order, exactly the indices
\* i with 2 <= i < N and i mod 3 = 2, N the number of inputs, whatever the
\* attributes and the context; QLinearBinaryOpInputs returns [0, 3].
C7_InputSelectors ==
    /\ last.op = "QLinearConcatInputs" =>
        LET idx == last.indices
            N == Len(nodes[last.node].inputs)
        IN  /\ \A k \in 1..(Len(idx) - 1) : idx[k] < idx[k + 1]
            /\ {idx[k] : k \in 1..Len(idx)} = {i \in 0..(N - 1) : i >= 2 /\ i % 3 = 2}
    /\ last.op = "QLinearBinaryOpInputs" => last.indices = <<0, 3>>

\* A concat of three (tensor, scale, zero point) triples selects 2, 5 and 8.
C7_Witness ==
    /\ last.op = "QLinearConcatInputs"
    /\ Len(nodes[last.node].inputs) = 9
    /\ last.indices = <<2, 5, 8>>

PoolMatch ==
    LET rank == Len(last.perm)
        cl == EffectiveChannelsLast(LastOld)
    IN  /\ rank >= 2
        /\ \/ cl = 0 /\ last.perm = ChannelLastToFirstPerm(rank)
           \/ cl # 0 /\ last.perm = InvertPerm(ChannelLastToFirstPerm(rank))

\* C8: HandleQLinearPoolOp returns true exactly when the rank is at least 2 and
\* the permutation is the canonical one (channels_last false or absent) or its
\* inverse (channels_last true); then channels_last is flipped, the inverse
\* permutation is put in front of input 0 and the pushed one behind the
\* outputs, and nothing else changes; otherwise the graph is untouched.
C8_PoolHandler ==
    last.op = "HandleQLinearPoolOp" =>
        /\ ~last.fault
        /\ last.ret = PoolMatch
        /\ IF PoolMatch
           THEN LET old == LastOld
                    flipped == IF EffectiveChannelsLast(old) = 0 THEN 1 ELSE 0
                IN  /\ edges = last.pre_edges
                    /\ nodes = [last.pre_nodes EXCEPT ![last.node] =
                         [old EXCEPT
                            !.attrs = [a \in (DOMAIN old.attrs) \cup {"channels_last"} |->
                                          IF a = "channels_last" THEN flipped
                                          ELSE old.attrs[a]],
                            !.in0T = Append(old.in0T, InvertPerm(last.perm)),
                            !.outT = Append(old.outT, last.perm)]]
           ELSE GraphUntouched

\* A channels_last node took the inverse of the rank-4 canonical permutation.
C8_Witness ==
    /\ last.op = "HandleQLinearPoolOp" /\ last.ret
    /\ EffectiveChannelsLast(LastOld) = 1
    /\ Len(last.perm) = 4

\* C9: in HandleQLinearPoolOp and HandleMaxPool a pushed permutation of rank
\* below 2 yields false with the graph untouched, and ChannelLastToFirstPerm is
\* never called with a rank below 2.
C9_RankBelowTwo ==
    last.op \in {"HandleQLinearPoolOp", "HandleMaxPool"} =>
        /\ (last.clf_rank = -1 \/ last.clf_rank >= 2)
        /\ Len(last.perm) < 2 => (~last.fault /\ ~last.ret /\ GraphUntouched)

\* The part of C9 that is about HandleQLinearPoolOp (holds; kept for reference).
PoolRankBelowTwo ==
    last.op = "HandleQLinearPoolOp" =>
        /\ (last.clf_rank = -1 \/ last.clf_rank >= 2)
        /\ Len(last.perm) < 2 => (~last.fault /\ ~last.ret /\ GraphUntouched)

(* ===================== training Module construction =================== *)
\* A name is a sequence of tokens; a gradient name is a parameter name
\* followed by the gradient suffix.
GradSuffix == "_grad"

GradientOf(name) == Append(name, GradSuffix)

\* GetParamNameFromGradient: whether the name ends in the gradient suffix, and
\* the name without it.
GetParamNameFromGradient(name) ==
    IF Len(name) >= 2 /\ name[Len(name)] = GradSuffix
    THEN [found |-> TRUE, param_name |-> SubSeq(name, 1, Len(name) - 1)]
    ELSE [found |-> FALSE, param_name |-> <<>>]

BaseNames == {<<"w1">>, <<"w2">>, <<"x">>}

GraphInputNames == BaseNames \cup {GradientOf(b) : b \in BaseNames}

\* Sequences of distinct graph input names, at most MaxGraphInputs long.
DistinctSeqs(S, maxlen) ==
    UNION {{q \in [1..len -> S] : \A i, j \in 1..len : i # j => q[i] # q[j]}
           : len \in 0..maxlen}

Parameter(requires_grad, allocated) ==
    [requires_grad |-> requires_grad, allocated |-> allocated,
     has_grad |-> FALSE, gradient_name |-> <<>>]

\* Parameter tables: w1 and w2 with every flag combination or absent, and
\* possibly a parameter whose own name ends in the gradient suffix.
ParameterTables ==
    {t \in UNION {[keys -> {Parameter(r, a) : r \in BOOLEAN, a \in BOOLEAN}]
                  : keys \in SUBSET {<<"w1">>, <<"w2">>, GradientOf(<<"w1">>)}}
     : GradientOf(<<"w1">>) \in DOMAIN t
          => (t[GradientOf(<<"w1">>)].requires_grad /\ t[GradientOf(<<"w1">>)].allocated)}

GraphIdle ==
    /\ nodes = <<>> /\ edges = {} /\ value_info = <<>> /\ provider_type = ""
    /\ next_id = FirstFreeId /\ last = NoCall

ModuleInit ==
    /\ GraphIdle
    /\ m_pc = "loop"
    /\ m_params \in ParameterTables
    /\ m_graph_inputs \in DistinctSeqs(GraphInputNames, MaxGraphInputs)
    /\ m_i = 1
    /\ m_param_names = <<>> /\ m_grad_names = <<>> /\ m_user_names = <<>>
    /\ m_weights = <<>> /\ m_gradients = <<>>
    /\ m_train_names = m_graph_inputs
    /\ m_feeds = <<>>

\* Parameter::AllocateGrad: both ORT_ENFORCEs and the allocation must succeed.
AllocateGrad(param, gradient_name, like_ok) ==
    IF param.allocated /\ param.requires_grad /\ like_ok
    THEN [threw |-> FALSE,
          param |-> [param EXCEPT !.has_grad = TRUE, !.gradient_name = gradient_name]]
    ELSE [threw |-> TRUE, param |-> param]

\* The gradient branch raising an error when the parameter is not in the table.
GradientBranch_RaisesOnMiss(params, gradients, input_name, param_name, like_ok) ==
    IF param_name \in DOMAIN params
    THEN LET a == AllocateGrad(params[param_name], input_name, like_ok) IN
         IF a.threw
         THEN [threw |-> TRUE, params |-> params, gradients |-> gradients]
         ELSE [threw |-> FALSE,
               params |-> [params EXCEPT ![param_name] = a.param],
               gradients |-> Append(gradients, param_name)]
    ELSE [threw |-> TRUE, params |-> params, gradients |-> gradients]

\* The body of the gradient branch after grad_input_names.emplace_back.
GradientBranch(params, gradients, input_name, param_name, like_ok) ==
    IF param_name \in DOMAIN params
    THEN LET a == AllocateGrad(params[param_name], input_name, like_ok) IN
         IF a.threw
         THEN [threw |-> TRUE, params |-> params, gradients |-> gradients]
         ELSE [threw |-> FALSE,
               params |-> [params EXCEPT ![param_name] = a.param],
               gradients |-> Append(gradients, param_name)]
    ELSE [threw |-> FALSE, params |-> params, gradients |-> gradients]

InLoop == m_pc = "loop" /\ m_i <= Len(m_graph_inputs)

CurrentInput == m_graph_inputs[m_i]

\* it != parameters_.end(): the input is a parameter.
ClassifyParameter ==
    /\ InLoop
    /\ CurrentInput \in DOMAIN m_params
    /\ m_param_names' = Append(m_param_names, CurrentInput)
    /\ m_weights' = Append(m_weights, CurrentInput)
    /\ m_i' = m_i + 1
    /\ UNCHANGED <<m_pc, m_params, m_graph_inputs, m_grad_names, m_user_names,
                   m_gradients, m_train_names, m_feeds, gvars>>

\* GetParamNameFromGradient(input_name, param_name): the input is a gradient.
ClassifyGradient ==
    /\ InLoop
    /\ CurrentInput \notin DOMAIN m_params
    /\ GetParamNameFromGradient(CurrentInput).found
    /\ \E like_ok \in BOOLEAN :
        LET r == GradientBranch(m_params, m_gradients, CurrentInput,
                                GetParamNameFromGradient(CurrentInput).param_name,
                                like_ok)
        IN  /\ m_grad_names' = Append(m_grad_names, CurrentInput)
            /\ m_params' = r.params
            /\ m_gradients' = r.gradients
            /\ m_pc' = IF r.threw THEN "threw" ELSE m_pc
            /\ m_i' = IF r.threw THEN m_i ELSE m_i + 1
    /\ UNCHANGED <<m_graph_inputs, m_param_names, m_user_names, m_weights,
                   m_train_names, m_feeds, gvars>>

\* Neither: the input is a user input.
ClassifyUserInput ==
    /\ InLoop
    /\ CurrentInput \notin DOMAIN m_params
    /\ ~GetParamNameFromGradient(CurrentInput).found
    /\ m_user_names' = Append(m_user_names, CurrentInput)
    /\ m_i' = m_i + 1
    /\ UNCHANGED <<m_pc, m_params, m_graph_inputs, m_param_names, m_grad_names,
                   m_weights, m_gradients, m_train_names, m_feeds, gvars>>

\* After the loop: train_input_names_ = user, then parameter, then gradient names.
FinishConstruction ==
    /\ m_pc = "loop"
    /\ m_i > Len(m_graph_inputs)
    /\ m_train_names' = m_user_names \o m_param_names \o m_grad_names
    /\ m_pc' = "done"
    /\ UNCHANGED <<m_params, m_graph_inputs, m_i, m_param_names, m_grad_names,
                   m_user_names, m_weights, m_gradients, m_feeds, gvars>>

\* Module::TrainStep: feeds = inputs, weights_, gradients_, the reset flag.
TrainStep ==
    /\ m_pc = "done"
    /\ m_feeds' = [k \in 1..Len(m_user_names) |-> [kind |-> "input", of |-> m_user_names[k]]]
                  \o [k \in 1..Len(m_weights) |-> [kind |-> "weight", of |-> m_weights[k]]]
                  \o [k \in 1..Len(m_gradients) |-> [kind |-> "gradient", of |-> m_gradients[k]]]
                  \o <<[kind |-> "lazy_reset_grad", of |-> <<>>]>>
    /\ m_pc' = "ran"
    /\ UNCHANGED <<m_params, m_graph_inputs, m_i, m_param_names, m_grad_names,
                   m_user_names, m_weights, m_gradients, m_train_names, gvars>>

ModuleNext ==
    \/ ClassifyParameter
    \/ ClassifyGradient
    \/ ClassifyUserInput
    \/ FinishConstruction
    \/ TrainStep

ModuleSpec == ModuleInit /\ [][ModuleNext]_vars

(* ===================== properties of ModuleSpec ======================== *)
IsParameterInput(name) == name \in DOMAIN m_params

IsGradientInput(name) ==
    name \notin DOMAIN m_params /\ Len(name) >= 2 /\ name[Len(name)] = "_grad"

IsUserInput(name) == ~IsParameterInput(name) /\ ~IsGradientInput(name)

ParamOfGradient(name) == SubSeq(name, 1, Len(name) - 1)

HasTableEntry(name) == ParamOfGradient(name) \in DOMAIN m_params

Constructed == m_pc \in {"done", "ran"}

====
